---- MODULE Spec2Model ----
(***************************************************************************)
(* Model of helix-term/src/ui/completion.rs: the completion popup, its     *)
(* menu callback (Update / Validate / Abort), the edit synthesis of        *)
(* item_to_transaction, recompute_filter and the asynchronous resolution   *)
(* of the selected item.                                                    *)
(*                                                                         *)
(* Strings are sequences of one-character strings.  An Option<T> is a      *)
(* sequence of length at most one: <<>> is None and <<x>> is Some(x).       *)
(***************************************************************************)
EXTENDS Integers, Sequences, FiniteSets, TLC

VARIABLES
    \* ---- the editor (Document, Editor, EditorView) ----
    text,              \* doc.text()
    cursor,            \* doc.selection(view.id).primary().cursor(..)
    savepoint,         \* doc.savepoint: Option<[text, cursor]>, what a restore gives
    completion,        \* EditorView.completion: Option<Completion>
    last_completion,   \* editor.last_completion: Option<CompleteAction>
    pending,           \* resolve futures in flight with their callback closures
    panicked,          \* an unwrap() has aborted the program
    debug_assertions,  \* the build evaluates debug_assert! (cfg(debug_assertions))
    \* ---- observations of the run (history, written and never read by the program) ----
    hist,              \* what the current / last popup has done
    \* ---- the edit synthesizer applied to drawn inputs (SpecSynth) ----
    synIn,             \* the inputs of item_to_transaction
    synOut,            \* Option<its result>
    \* ---- Completion::new's sort applied to drawn inputs (SpecSort) ----
    sortIn,            \* the items in arrival order
    sortOut,           \* Option<the items after sort_by_key>
    \* ---- one call of the menu callback or of ensure_item_resolved on drawn inputs ----
    callIn,            \* Option<the call's arguments and the state it runs in>
    callOut            \* Option<its effects>

vars == <<text, cursor, savepoint, completion, last_completion, pending, panicked,
          debug_assertions, hist, synIn, synOut, sortIn, sortOut, callIn, callOut>>

editorVars == <<text, cursor, savepoint, completion, last_completion, pending, panicked,
                debug_assertions, hist>>

synVars == <<synIn, synOut>>

sortVars == <<sortIn, sortOut>>

callVars == <<callIn, callOut>>

(***************************************************************************)
(* Bounds of the model.                                                    *)
(***************************************************************************)
MaxSynLen == 3      \* longest document of the synthesizer runs
MaxSortLen == 3     \* longest item list handed to the sort
MaxLen == 2         \* typing stops at this document length
MaxItems == 2       \* longest item list of a completion response
MaxPending == 2     \* resolve requests in flight

None == <<>>
Some(x) == <<x>>
IsSome(o) == Len(o) = 1
Unwrap(o) == o[1]

(***************************************************************************)
(* Strings.                                                                *)
(***************************************************************************)
Slice(s, from, to) == SubSeq(s, from + 1, to)     \* s[from..to], 0-based, end exclusive

StartsWith(s, p) == Len(p) <= Len(s) /\ SubSeq(s, 1, Len(p)) = p

EndsWith(s, c) == Len(s) > 0 /\ s[Len(s)] = c

RECURSIVE StrsUpTo(_, _)
StrsUpTo(A, n) ==
    IF n = 0 THEN {<<>>}
    ELSE LET shorter == StrsUpTo(A, n - 1)
         IN  shorter \cup {Append(s, c) : s \in {t \in shorter : Len(t) = n - 1}, c \in A}

\* str::trim_start_matches(&str): every leading occurrence of the pattern is
\* removed, repeatedly; the empty pattern removes nothing.
RECURSIVE trim_start_matches(_, _)
trim_start_matches(s, pat) ==
    IF pat = <<>> \/ ~StartsWith(s, pat) THEN s
    ELSE trim_start_matches(SubSeq(s, Len(pat) + 1, Len(s)), pat)

\* The prefix removed at most once: what "strip the prefix if it is a prefix" denotes.
strip_prefix_once(s, pat) ==
    IF StartsWith(s, pat) THEN SubSeq(s, Len(pat) + 1, Len(s)) ELSE s

(***************************************************************************)
(* Candidates (CompletionItem).                                            *)
(***************************************************************************)
LSP(label, insert_text, preselect, documentation, additional, ls) ==
    [kind |-> "LSP", label |-> label, insert_text |-> insert_text,
     preselect |-> preselect, documentation |-> documentation,
     additional_text_edits |-> additional, language_server_id |-> ls,
     text_edit |-> None, filter_text |-> None]

\* A Path item is modelled by its file name, the only part of the path the file
\* reads; <<>> is a path without file name ("/", or one ending in "..").
Path(file_name) ==
    [kind |-> "Path", label |-> file_name, insert_text |-> None,
     preselect |-> FALSE, documentation |-> FALSE,
     additional_text_edits |-> <<>>, language_server_id |-> 0,
     text_edit |-> None, filter_text |-> None]

\* An LSP item that carries an explicit edit: replace [from, to) by new_text.
WithTextEdit(item, from, to, new_text) ==
    [item EXCEPT !.text_edit = Some([from |-> from, to |-> to, new_text |-> new_text])]

\* An LSP item whose server sent a filterText.
WithFilterText(item, filter) == [item EXCEPT !.filter_text = Some(filter)]

\* menu::Item::filter_text: an LSP item's filterText, its label when it has none;
\* a Path item's file name.
filter_text(item) ==
    IF item.kind = "LSP" /\ IsSome(item.filter_text) THEN Unwrap(item.filter_text)
    ELSE item.label

\* menu::Item::sort_text
sort_text(item) == filter_text(item)

(***************************************************************************)
(* PATH_REGEX and std::path::Path::file_name.                              *)
(***************************************************************************)
Slashes(s) == {i \in 1..Len(s) : s[i] = "/"}

Min(S) == CHOOSE x \in S : \A y \in S : x <= y
Max(S) == CHOOSE x \in S : \A y \in S : x >= y

\* PATH_REGEX.find(line): the leftmost match of ((?:\.{0,2}/)+.*)$ starts at the
\* first '/' of the line, moved left over at most two '.' directly before it, and
\* runs to the end of the line.  None when the line holds no '/'.
PATH_REGEX_find(line) ==
    IF Slashes(line) = {} THEN None
    ELSE LET j == Min(Slashes(line))
             d == IF j > 2 /\ line[j - 1] = "." /\ line[j - 2] = "." THEN 2
                  ELSE IF j > 1 /\ line[j - 1] = "." THEN 1
                  ELSE 0
         IN  Some(SubSeq(line, j - d, Len(line)))

\* The components of a path: the pieces between separators, as (first, last) index pairs.
SegStart(p, i) == \* start of the piece that ends just before index i+1
    LET before == {k \in Slashes(p) : k <= i}
    IN  IF before = {} THEN 1 ELSE Max(before) + 1

\* Path::file_name: the last component when it is a normal one.  Walking back from
\* the end, empty pieces and "." pieces are skipped, except a "." that opens a
\* relative path (CurDir); ".." (ParentDir), CurDir and the root give None.
RECURSIVE file_name_upto(_, _)
file_name_upto(p, i) ==
    IF i = 0 THEN None
    ELSE IF p[i] = "/" THEN file_name_upto(p, i - 1)
    ELSE LET b == SegStart(p, i)
             seg == SubSeq(p, b, i)
         IN  IF seg = <<".">> THEN (IF b = 1 THEN None ELSE file_name_upto(p, b - 1))
             ELSE IF seg = <<".", ".">> THEN None
             ELSE Some(seg)

file_name(p) == file_name_upto(p, Len(p))

(***************************************************************************)
(* Rope: char_to_line / line_to_char.                                      *)
(***************************************************************************)
\* text.line_to_char(text.char_to_line(pos)): the offset at which pos's line begins.
begin_line(t, pos) ==
    LET nls == {k \in 1..pos : t[k] = "\n"}
    IN  IF nls = {} THEN 0 ELSE Max(nls)

(***************************************************************************)
(* item_to_transaction.  A transaction of this file is one change          *)
(* (from, to, Some(text)); ok = FALSE is the unwrap() panic.               *)
(***************************************************************************)
Change(from, to, ins) == [ok |-> TRUE, from |-> from, to |-> to, text |-> ins]
SynthPanic == [ok |-> FALSE, from |-> 0, to |-> 0, text |-> <<>>]

\* The typed prefix a Path item is trimmed by.
path_prefix(t, trigger_offset) ==
    LET line_until_trigger_offset == Slice(t, begin_line(t, trigger_offset), trigger_offset)
        mat == PATH_REGEX_find(line_until_trigger_offset)
        path == Unwrap(mat)
        fname == file_name(path)
        prefix == IF IsSome(fname) THEN Unwrap(fname) ELSE <<>>
    IN  IF EndsWith(path, "/") THEN Append(prefix, "/") ELSE prefix

\* util::generate_transaction_from_completion_edit: the edit's range is taken
\* relative to the primary cursor and applied at the primary cursor, which gives the
\* range itself, replaced by the edit's text.
generate_transaction_from_completion_edit(edit) ==
    Change(edit.from, edit.to, edit.new_text)

item_to_transaction(t, cur, item, start_offset, trigger_offset) ==
    IF item.kind = "LSP" /\ IsSome(item.text_edit)
    THEN generate_transaction_from_completion_edit(Unwrap(item.text_edit))
    ELSE IF trigger_offset > Len(t)
    THEN SynthPanic                    \* lines 195, 224, 228: Rope index out of bounds
    ELSE IF item.kind = "LSP"
    THEN LET full == IF IsSome(item.insert_text) THEN Unwrap(item.insert_text) ELSE item.label
             prefix == Slice(t, start_offset, trigger_offset)
         IN  IF start_offset > trigger_offset
             THEN SynthPanic           \* line 195: Rope slice with start > end
             ELSE IF debug_assertions /\ cur # trigger_offset
             THEN SynthPanic           \* lines 202-207: debug_assert!(cursor == trigger_offset)
             ELSE Change(cur, cur, trim_start_matches(full, prefix))
    ELSE LET line_until_trigger_offset ==
                 Slice(t, begin_line(t, trigger_offset), trigger_offset)
         IN  IF item.label = <<>>
             THEN SynthPanic           \* line 226: path.file_name().unwrap()
             ELSE IF PATH_REGEX_find(line_until_trigger_offset) = None
             THEN SynthPanic           \* line 229: PATH_REGEX.find(..).unwrap()
             ELSE Change(cur, cur, trim_start_matches(item.label, path_prefix(t, trigger_offset)))

(***************************************************************************)
(* Completion::new's sort: items.sort_by_key(|item| ...), a stable sort by *)
(* a boolean key (false before true).  The result is given as the arrival  *)
(* positions in their new order.                                           *)
(***************************************************************************)
sort_key(item) == IF item.kind = "LSP" THEN ~item.preselect ELSE FALSE

Indices(n) == [i \in 1..n |-> i]

sort_by_key(items) ==
    LET idx == Indices(Len(items))
        IsFirst(i) == ~sort_key(items[i])
        IsLast(i) == sort_key(items[i])
    IN  SelectSeq(idx, IsFirst) \o SelectSeq(idx, IsLast)

Permuted(items, perm) == [k \in 1..Len(perm) |-> items[perm[k]]]

(***************************************************************************)
(* The document primitive: apply / savepoint / restore.                    *)
(***************************************************************************)
Doc(t, cur) == [text |-> t, cursor |-> cur]

\* apply_transaction of one change: the text is spliced and the cursor, which the
\* transaction does not set, is mapped through the change (a cursor at or after
\* the change moves with the text that follows it).
apply_transaction(tx, d) ==
    Doc(SubSeq(d.text, 1, tx.from) \o tx.text \o SubSeq(d.text, tx.to + 1, Len(d.text)),
        IF d.cursor >= tx.to THEN d.cursor - (tx.to - tx.from) + Len(tx.text)
        ELSE IF d.cursor > tx.from THEN tx.from
        ELSE d.cursor)

\* doc.restore(view): takes the pending savepoint, if any, and reverts the document
\* content to it, undoing everything applied or typed since.  The cursor is not
\* set: it is carried through the reverting edits, as apply_transaction carries
\* it through any edit.  A pending savepoint is kept as what a restore gives: the
\* content it returns to and the place the reverting edits carry the cursor to.
\* An edit made at the cursor (a typed key, a preview) is reverted with the cursor
\* back where it was; a cursor moved without an edit stays moved.
restore(sp, d) == IF IsSome(sp) THEN Unwrap(sp) ELSE d

(***************************************************************************)
(* The menu primitive: the store (options), the visible list (matches, as  *)
(* indices into the store) and the focused entry (selected).               *)
(***************************************************************************)
RECURSIVE fuzzy_match(_, _)
fuzzy_match(s, pattern) ==      \* the pattern's characters occur in s, in order
    IF pattern = <<>> THEN TRUE
    ELSE IF s = <<>> THEN FALSE
    ELSE IF Head(s) = Head(pattern) THEN fuzzy_match(Tail(s), Tail(pattern))
    ELSE fuzzy_match(Tail(s), pattern)

InSeq(x, s) == \E k \in 1..Len(s) : s[k] = x

menu_score(popup, pattern) ==
    LET Matches(i) == fuzzy_match(filter_text(popup.options[i]), pattern)
        m == SelectSeq(Indices(Len(popup.options)), Matches)
    IN  [popup EXCEPT !.matches = m,
                      !.selected = IF IsSome(@) /\ InSeq(Unwrap(@), m) THEN @ ELSE None]

menu_clear(popup) == [popup EXCEPT !.matches = <<>>, !.selected = None]

menu_add_options(popup, items) ==
    [popup EXCEPT !.options = @ \o items,
                  !.matches = @ \o [k \in 1..Len(items) |-> Len(popup.options) + k]]

menu_replace_option(popup, old_item, new_item) ==
    LET hits == {i \in 1..Len(popup.options) : popup.options[i] = old_item}
    IN  IF hits = {} THEN popup
        ELSE [popup EXCEPT !.options[Min(hits)] = new_item]

menu_selection(popup) ==
    IF IsSome(popup.selected) THEN Some(popup.options[Unwrap(popup.selected)]) ELSE None

(***************************************************************************)
(* Completion: recompute_filter, is_empty, add_completion_items,           *)
(* replace_item.                                                           *)
(***************************************************************************)
\* The popup after the call; None when the call panics.
recompute_filter(popup, d) ==
    IF popup.trigger_offset <= d.cursor
    THEN IF popup.start_offset > d.cursor
         THEN None                       \* line 410: Rope slice with start > end
         ELSE Some(menu_score(popup, Slice(d.text, popup.start_offset, d.cursor)))
    ELSE Some(menu_clear(popup))         \* line 417

\* Completion::update
update(popup, d) == recompute_filter(popup, d)

is_empty(popup) == popup.matches = <<>>

\* Completion::new: the items sorted by preselect status, the anchor, and an
\* immediate recompute_filter.  None when that call panics.
completion_new(items, start_offset, trigger_offset, d) ==
    recompute_filter([start_offset |-> start_offset, trigger_offset |-> trigger_offset,
                      options |-> Permuted(items, sort_by_key(items)),
                      matches |-> <<>>, selected |-> None], d)

add_completion_items(popup, items) == menu_add_options(popup, items)

replace_item(popup, old_item, new_item) == menu_replace_option(popup, old_item, new_item)

(***************************************************************************)
(* Language servers and their answers.                                     *)
(***************************************************************************)
Registered == {1, 2}         \* ids editor.language_servers / doc.language_servers() know
ResolveProvider == {1}       \* servers whose capabilities declare resolve_provider

\* An additional edit (an auto-import): insert "i" at the start of the document.
ImportEdit == Change(0, 0, <<"i">>)

\* The item as the server resolves it: documentation and the additional edits filled in.
Resolved(item) ==
    [item EXCEPT !.documentation = TRUE, !.additional_text_edits = <<ImportEdit>>]

\* What a completionItem/resolve request may come back with: a failure (None) or the
\* resolved item.
ResolveResponses(item) == {None, Some(Resolved(item))}

\* helix_lsp::Client::resolve_completion_item: a future (TRUE) when the server
\* declares resolve support, None (FALSE) otherwise.
client_resolve_completion_item(ls) == ls \in ResolveProvider

\* Completion::resolve_completion_item: None unless the server declares resolve
\* support; otherwise the (blocking) request's answer.
resolve_completion_item(ls, response) ==
    IF ls \notin ResolveProvider THEN None ELSE response

\* util::generate_transaction_from_edits followed by apply_transaction.
RECURSIVE apply_edits(_, _)
apply_edits(edits, d) ==
    IF edits = <<>> THEN d
    ELSE apply_edits(Tail(edits), apply_transaction(Head(edits), d))

(***************************************************************************)
(* The menu callback of Completion::new, one operator per PromptEvent.     *)
(* Each takes the document, the pending savepoint and editor.last_completion*)
(* and gives them back, with ok = FALSE for a panic and log = the          *)
(* apply_transaction calls made, in order.                                 *)
(***************************************************************************)
completion_changes_unfiltered(tx, trigger_offset) ==
    <<[from |-> tx.from, to |-> tx.to, text |-> tx.text]>>

completion_changes(tx, trigger_offset) ==
    IF tx.from <= trigger_offset /\ trigger_offset <= tx.to
    THEN <<[from |-> tx.from, to |-> tx.to, text |-> tx.text]>>
    ELSE <<>>

CompleteAction(tx, trigger_offset) ==
    Some([trigger_offset |-> trigger_offset, changes |-> completion_changes(tx, trigger_offset)])

Outcome(ok, d, sp, last, log) ==
    [ok |-> ok, doc |-> d, savepoint |-> sp, last_completion |-> last, log |-> log,
     requested |-> FALSE]

\* The same outcome, reached after a completionItem/resolve request was sent.
Requested(outcome) == [outcome EXCEPT !.requested = TRUE]

Applied(kind, before, after) == [kind |-> kind, before |-> before.text, after |-> after.text]

on_abort_keeps_savepoint(d, sp, last) ==
    LET d0 == restore(sp, d)
    IN  Outcome(TRUE, d0, Some(d0), None, <<>>)

on_abort(d, sp, last) ==
    LET d0 == restore(sp, d)          \* line 264
        d1 == restore(None, d0)       \* line 268: the savepoint is already taken
    IN  Outcome(TRUE, d1, None, None, <<>>)

on_update_no_restore(d, sp, last, item, start_offset, trigger_offset) ==
    LET tx == item_to_transaction(d.text, d.cursor, item, start_offset, trigger_offset)
        d1 == apply_transaction(tx, d)
    IN  IF ~tx.ok THEN Outcome(FALSE, d, sp, last, <<>>)
        ELSE Outcome(TRUE, d1, Some(d), CompleteAction(tx, trigger_offset),
                     <<Applied("preview", d, d1)>>)

on_update_no_savepoint(d, sp, last, item, start_offset, trigger_offset) ==
    LET d0 == restore(sp, d)
        tx == item_to_transaction(d0.text, d0.cursor, item, start_offset, trigger_offset)
        d1 == apply_transaction(tx, d0)
    IN  IF ~tx.ok THEN Outcome(FALSE, d0, None, last, <<>>)
        ELSE Outcome(TRUE, d1, None, CompleteAction(tx, trigger_offset),
                     <<Applied("preview", d0, d1)>>)

on_update(d, sp, last, item, start_offset, trigger_offset) ==
    LET d0 == restore(sp, d)                                           \* line 264
        tx == item_to_transaction(d0.text, d0.cursor, item, start_offset, trigger_offset)
        d1 == apply_transaction(tx, d0)                                \* line 280
    IN  IF ~tx.ok THEN Outcome(FALSE, d0, None, last, <<>>)            \* line 229 unwrap
        ELSE Outcome(TRUE, d1, Some(d0) (* line 279 *), CompleteAction(tx, trigger_offset),
                     <<Applied("preview", d0, d1)>>)

\* The additional edits Validate applies: the resolved item's when a resolved item
\* came back, else the item's own.
additional_edits(item, resolved) ==
    IF IsSome(resolved) THEN Unwrap(resolved).additional_text_edits
    ELSE item.additional_text_edits

on_validate_takes_savepoint(d, sp, last, item, start_offset, trigger_offset, response) ==
    LET d0 == restore(sp, d)
        tx == item_to_transaction(d0.text, d0.cursor, item, start_offset, trigger_offset)
        d1 == apply_transaction(tx, d0)
    IN  IF ~tx.ok THEN Outcome(FALSE, d0, None, last, <<>>)
        ELSE Outcome(TRUE, d1, Some(d0), CompleteAction(tx, trigger_offset),
                     <<Applied("primary", d0, d1)>>)

on_validate_additional_first(d, sp, last, item, start_offset, trigger_offset, response) ==
    LET d0 == restore(sp, d)
        tx == item_to_transaction(d0.text, d0.cursor, item, start_offset, trigger_offset)
        needs_resolve == item.kind = "LSP" /\ item.additional_text_edits = <<>>
        resolved == IF needs_resolve /\ item.language_server_id \in Registered
                    THEN resolve_completion_item(item.language_server_id, response)
                    ELSE None
        edits == IF item.kind = "LSP" THEN additional_edits(item, resolved) ELSE <<>>
        d1 == apply_edits(edits, d0)
        d2 == apply_transaction([tx EXCEPT !.from = d1.cursor, !.to = d1.cursor], d1)
    IN  IF ~tx.ok THEN Outcome(FALSE, d0, None, last, <<>>)
        ELSE IF needs_resolve /\ item.language_server_id \notin Registered
        THEN Outcome(FALSE, d0, None, last, <<>>)
        ELSE IF edits = <<>>
        THEN Outcome(TRUE, d2, None, CompleteAction(tx, trigger_offset),
                     <<Applied("primary", d1, d2)>>)
        ELSE Outcome(TRUE, d2, None, CompleteAction(tx, trigger_offset),
                     <<Applied("additional", d0, d1), Applied("primary", d1, d2)>>)

on_validate(d, sp, last, item, start_offset, trigger_offset, response) ==
    LET d0 == restore(sp, d)                                           \* line 264
        tx == item_to_transaction(d0.text, d0.cursor, item, start_offset, trigger_offset)
        d1 == apply_transaction(tx, d0)                                \* line 294
        last1 == CompleteAction(tx, trigger_offset)                    \* lines 296-299
        needs_resolve == item.kind = "LSP" /\ item.additional_text_edits = <<>>
        resolved == IF needs_resolve /\ item.language_server_id \in Registered
                    THEN resolve_completion_item(item.language_server_id, response)
                    ELSE None
        edits == IF item.kind = "LSP" THEN additional_edits(item, resolved) ELSE <<>>
        d2 == apply_edits(edits, d1)                                   \* lines 329-334
        done == IF edits = <<>>
                THEN Outcome(TRUE, d1, None, last1, <<Applied("primary", d0, d1)>>)
                ELSE Outcome(TRUE, d2, None, last1,
                             <<Applied("primary", d0, d1), Applied("additional", d1, d2)>>)
    IN  IF ~tx.ok THEN Outcome(FALSE, d0, None, last, <<>>)            \* line 229 unwrap
        ELSE IF needs_resolve /\ item.language_server_id \notin Registered
        THEN Outcome(FALSE, d1, None, last1, <<Applied("primary", d0, d1)>>)  \* line 319 unwrap
        ELSE IF needs_resolve /\ client_resolve_completion_item(item.language_server_id)
        THEN Requested(done)                                           \* line 366
        ELSE done

\* The menu callback: the restore, then the arm of the event.  Update and Validate
\* unwrap the focused item, which panics when the event carries none.
callback(event, item, d, sp, last, start_offset, trigger_offset, response) ==
    IF event = "Abort" THEN on_abort(d, sp, last)
    ELSE IF item = None THEN Outcome(FALSE, restore(sp, d), None, last, <<>>)  \* lines 273, 289
    ELSE IF event = "Update"
    THEN on_update(d, sp, last, Unwrap(item), start_offset, trigger_offset)
    ELSE on_validate(d, sp, last, Unwrap(item), start_offset, trigger_offset, response)

(***************************************************************************)
(* Asynchronous resolution: ensure_item_resolved and its callback.         *)
(***************************************************************************)
ensure_item_resolved_ignores_documentation(popup) ==
    LET sel == menu_selection(popup)
    IN  IF sel = None THEN None
        ELSE IF Unwrap(sel).kind # "LSP" THEN None
        ELSE IF Unwrap(sel).language_server_id \notin Registered THEN None
        ELSE IF ~client_resolve_completion_item(Unwrap(sel).language_server_id) THEN None
        ELSE Some([current_item |-> Unwrap(sel), issuer_open |-> TRUE])

\* Some(request) when ensure_item_resolved issues one (and returns true), else None.
ensure_item_resolved(popup) ==
    LET sel == menu_selection(popup)
    IN  IF sel = None THEN None
        ELSE IF Unwrap(sel).kind # "LSP" \/ Unwrap(sel).documentation THEN None
        ELSE IF Unwrap(sel).language_server_id \notin Registered THEN None
        ELSE IF ~client_resolve_completion_item(Unwrap(sel).language_server_id) THEN None
        ELSE Some([current_item |-> Unwrap(sel), issuer_open |-> TRUE])

resolve_callback_clears_on_failure(comp, current_item, response) ==
    IF comp = None THEN comp
    ELSE IF response = None THEN Some(menu_clear(Unwrap(comp)))
    ELSE Some(replace_item(Unwrap(comp), current_item, Unwrap(response)))

resolve_callback_swapped(comp, current_item, response) ==
    IF response = None \/ comp = None THEN comp
    ELSE Some(replace_item(Unwrap(comp), Unwrap(response), current_item))

\* The closure given to cx.callback, run with the response on the owner thread:
\* whatever popup EditorView.completion holds at that time is the one updated.
resolve_callback(comp, current_item, response) ==
    IF response = None THEN comp                                        \* line 471
    ELSE IF comp = None THEN comp                                       \* line 474
    ELSE Some(replace_item(Unwrap(comp), current_item, Unwrap(response)))

(***************************************************************************)
(* The editor around the popup.                                            *)
(***************************************************************************)
TypeChars == {"a"}

ItemA == LSP(<<"a", "b">>, None, FALSE, FALSE, <<>>, 1)
ItemB == WithFilterText(LSP(<<"b">>, None, TRUE, TRUE, <<ImportEdit>>, 2), <<"a", "b">>)
ItemP == Path(<<"a">>)
LifeItems == {ItemA, ItemB, ItemP}

RECURSIVE SeqsUpTo(_, _)
SeqsUpTo(S, n) ==
    IF n = 0 THEN {<<>>}
    ELSE LET shorter == SeqsUpTo(S, n - 1)
         IN  shorter \cup {Append(s, x) : s \in {t \in shorter : Len(t) = n - 1}, x \in S}

\* The batches a popup is created with: non-empty, each candidate once (a
\* value-equal candidate can still arrive with a later batch).
ItemLists ==
    {l \in SeqsUpTo(LifeItems, MaxItems) :
        l # <<>> /\ \A i, j \in 1..Len(l) : l[i] = l[j] => i = j}

HistNone ==
    [createText |-> <<>>, firstPre |-> None, lastPre |-> None,
     abortText |-> None, typedFirst |-> FALSE, switched |-> FALSE,
     validateLog |-> <<>>]

SynIdle == synIn = None /\ synOut = None
SortIdle == sortIn = None /\ sortOut = None
CallIdle == callIn = None /\ callOut = None

\* Insert mode, the cursor behind a typed "/", no popup.
EditorInit ==
    /\ text = <<"/">>
    /\ cursor = 1
    /\ savepoint = None
    /\ completion = None
    /\ last_completion = None
    /\ pending = <<>>
    /\ panicked = FALSE
    /\ debug_assertions \in BOOLEAN      \* either build profile
    /\ hist = HistNone

Init ==
    /\ EditorInit
    /\ SynIdle
    /\ SortIdle
    /\ CallIdle

\* The savepoint taken once, as the popup opens.
set_completion_savepoint(d) == Some(d)

\* EditorView::clear_completion: the popup is dropped and with it any savepoint.
clear_completion == [completion |-> None, savepoint |-> None]

\* EditorView::set_completion: build the popup; an empty one is not shown; a
\* savepoint of the document is taken as the popup opens.
New(items, start) ==
    /\ ~panicked
    /\ completion = None
    /\ Len(text) < MaxLen
    /\ LET d == Doc(text, cursor)
           popup == completion_new(items, start, cursor, d)
       IN  IF popup = None
           THEN /\ panicked' = TRUE
                /\ UNCHANGED <<completion, savepoint, hist>>
           ELSE /\ ~is_empty(Unwrap(popup))
                /\ completion' = popup
                /\ savepoint' = set_completion_savepoint(d)
                /\ hist' = [HistNone EXCEPT !.createText = text]
                /\ UNCHANGED panicked
    /\ UNCHANGED <<debug_assertions, text, cursor, last_completion, pending,
                   synVars, sortVars, callVars>>

\* issuer_open of a request in flight records whether the popup that issued it is
\* still the open one; the callback closure itself holds no such thing.
MarkClosed(reqs) == [k \in 1..Len(reqs) |-> [reqs[k] EXCEPT !.issuer_open = FALSE]]

\* Dismiss: the editor ends a popup whose menu came back empty as it ends an
\* aborted one, by the restore.
dismiss(d, sp, last) == on_abort(d, sp, last)

\* The document after a key typed at the cursor, and after Backspace.
Typed(c) == apply_transaction(Change(cursor, cursor, <<c>>), Doc(text, cursor))
Backspaced == apply_transaction(Change(cursor - 1, cursor, <<>>), Doc(text, cursor))

\* A key that edits the document, then Completion::update, then the editor's
\* dismissal of a popup whose menu came back empty.
AfterKey(d) ==
    /\ IF completion = None
       THEN /\ text' = d.text
            /\ cursor' = d.cursor
            /\ UNCHANGED <<completion, savepoint, last_completion, hist, pending, panicked>>
       ELSE LET p1 == update(Unwrap(completion), d)
                out == dismiss(d, savepoint, last_completion)
            IN  IF p1 = None
                THEN /\ text' = d.text
                     /\ cursor' = d.cursor
                     /\ panicked' = TRUE
                     /\ UNCHANGED <<completion, savepoint, last_completion, hist, pending>>
                ELSE IF is_empty(Unwrap(p1))
                THEN /\ text' = out.doc.text
                     /\ cursor' = out.doc.cursor
                     /\ last_completion' = out.last_completion
                     /\ completion' = clear_completion.completion
                     /\ savepoint' = clear_completion.savepoint
                     /\ pending' = MarkClosed(pending)
                     /\ UNCHANGED <<hist, panicked>>
                ELSE /\ text' = d.text
                     /\ cursor' = d.cursor
                     /\ completion' = p1
                     /\ hist' = [hist EXCEPT !.typedFirst = @ \/ hist.firstPre = None]
                     /\ UNCHANGED <<savepoint, last_completion, pending, panicked>>
    /\ UNCHANGED <<debug_assertions, synVars, sortVars, callVars>>

KeyType(c) ==
    /\ ~panicked
    /\ Len(text) < MaxLen
    /\ AfterKey(Typed(c))

KeyBackspace ==
    /\ ~panicked
    /\ cursor > 0
    /\ AfterKey(Backspaced)

\* A further batch of items arrives for the open popup.
AddItems(item) ==
    /\ ~panicked
    /\ completion # None
    /\ Len(Unwrap(completion).options) < MaxItems
    /\ completion' = Some(add_completion_items(Unwrap(completion), <<item>>))
    /\ UNCHANGED <<debug_assertions, text, cursor, savepoint, last_completion, pending, panicked,
                   hist, synVars, sortVars, callVars>>

\* Tab / arrow: the menu focuses entry i and calls back with PromptEvent::Update.
Update(i) ==
    /\ ~panicked
    /\ completion # None
    /\ LET popup == Unwrap(completion)
           out == on_update(Doc(text, cursor), savepoint, last_completion,
                            popup.options[i], popup.start_offset, popup.trigger_offset)
       IN  /\ InSeq(i, popup.matches)
           /\ text' = out.doc.text
           /\ cursor' = out.doc.cursor
           /\ savepoint' = out.savepoint
           /\ last_completion' = out.last_completion
           /\ panicked' = ~out.ok
           /\ completion' = Some([popup EXCEPT !.selected = Some(i)])
           /\ hist' = IF out.log = <<>> THEN hist
                      ELSE [hist EXCEPT
                              !.firstPre = IF @ = None THEN Some(out.log[1].before) ELSE @,
                              !.lastPre = Some(out.log[1].before),
                              !.switched = @ \/ (hist.lastPre # None
                                                 /\ menu_selection(popup) # None
                                                 /\ menu_selection(popup) # Some(popup.options[i]))]
    /\ UNCHANGED <<debug_assertions, pending, synVars, sortVars, callVars>>

\* Enter on the focused entry: PromptEvent::Validate, then the popup closes.
Validate(response) ==
    /\ ~panicked
    /\ completion # None
    /\ LET popup == Unwrap(completion)
           item == Unwrap(menu_selection(popup))
           out == on_validate(Doc(text, cursor), savepoint, last_completion, item,
                              popup.start_offset, popup.trigger_offset, response)
       IN  /\ IsSome(popup.selected)
           /\ response \in IF item.kind = "LSP" /\ item.additional_text_edits = <<>>
                              /\ item.language_server_id \in ResolveProvider
                           THEN ResolveResponses(item) ELSE {None}
           /\ text' = out.doc.text
           /\ cursor' = out.doc.cursor
           /\ savepoint' = clear_completion.savepoint
           /\ last_completion' = out.last_completion
           /\ panicked' = ~out.ok
           /\ completion' = clear_completion.completion
           /\ hist' = [hist EXCEPT !.validateLog = out.log]
    /\ pending' = MarkClosed(pending)
    /\ UNCHANGED <<debug_assertions, synVars, sortVars, callVars>>

\* Ctrl-c: PromptEvent::Abort, then the popup closes.
Abort ==
    /\ ~panicked
    /\ completion # None
    /\ LET out == on_abort(Doc(text, cursor), savepoint, last_completion)
       IN  /\ text' = out.doc.text
           /\ cursor' = out.doc.cursor
           /\ savepoint' = clear_completion.savepoint
           /\ last_completion' = out.last_completion
           /\ hist' = [hist EXCEPT !.abortText = Some(out.doc.text)]
    /\ completion' = clear_completion.completion
    /\ pending' = MarkClosed(pending)
    /\ UNCHANGED <<debug_assertions, panicked, synVars, sortVars, callVars>>

\* The editor asks for the focused item to be resolved.
EnsureItemResolved ==
    /\ ~panicked
    /\ completion # None
    /\ Len(pending) < MaxPending
    /\ LET req == ensure_item_resolved(Unwrap(completion))
       IN  pending' = IF IsSome(req) THEN Append(pending, Unwrap(req)) ELSE pending
    /\ UNCHANGED <<debug_assertions, text, cursor, savepoint, completion, last_completion, panicked,
                   hist, synVars, sortVars, callVars>>

RemoveAt(s, k) == SubSeq(s, 1, k - 1) \o SubSeq(s, k + 1, Len(s))

StoreOf(comp) == IF comp = None THEN None ELSE Some(Unwrap(comp).options)

\* The response to request k arrives and its callback runs on the owner thread.
\* The compositor always holds the EditorView, so the unwrap of
\* find::<EditorView>() at line 476 goes through.
Deliver(k, response) ==
    /\ ~panicked
    /\ k \in 1..Len(pending)
    /\ response \in ResolveResponses(pending[k].current_item)
    /\ completion' = resolve_callback(completion, pending[k].current_item, response)
    /\ pending' = RemoveAt(pending, k)
    /\ UNCHANGED <<debug_assertions, text, cursor, savepoint, last_completion, panicked, hist,
                   synVars, sortVars, callVars>>

Next ==
    \/ \E items \in ItemLists, start \in {cursor - 1, cursor} \cap Nat : New(items, start)
    \/ \E c \in TypeChars : KeyType(c)
    \/ KeyBackspace
    \/ \E item \in LifeItems : AddItems(item)
    \/ \E i \in 1..MaxItems : Update(i)
    \/ \E response \in {None} \cup UNION {ResolveResponses(x) : x \in LifeItems} :
           Validate(response)
    \/ Abort
    \/ EnsureItemResolved
    \/ \E k \in 1..MaxPending, response \in UNION {ResolveResponses(x) : x \in LifeItems} :
           Deliver(k, response)

Spec == Init /\ [][Next]_vars

(***************************************************************************)
(* SpecSynth: item_to_transaction applied to drawn documents, anchors and  *)
(* items.                                                                  *)
(***************************************************************************)
SynChars == {"a", ".", "/", "\n"}
SynNames == StrsUpTo({"a", "."}, MaxSynLen) \ {<<>>}

SynItems ==
    {LSP(t, None, FALSE, FALSE, <<>>, 1) : t \in SynNames}
    \cup {LSP(<<"a">>, Some(t), FALSE, FALSE, <<>>, 1) : t \in SynNames}
    \cup {Path(t) : t \in SynNames \ {<<".">>, <<".", ".">>}}
    \cup {Path(<<>>)}

InitSynth ==
    /\ EditorInit
    /\ SortIdle
    /\ CallIdle
    /\ \E t \in StrsUpTo(SynChars, MaxSynLen), item \in SynItems :
          \E tr \in 0..Len(t) :
             \E st \in 0..Len(t), cur \in {tr, Len(t)} :
                synIn = Some([text |-> t, cursor |-> cur, item |-> item,
                              start_offset |-> st, trigger_offset |-> tr])
    /\ synOut = None

Synthesize ==
    /\ synOut = None
    /\ LET in == Unwrap(synIn)
       IN  synOut' = Some(item_to_transaction(in.text, in.cursor, in.item,
                                              in.start_offset, in.trigger_offset))
    /\ UNCHANGED <<editorVars, synIn, sortVars, callVars>>

NextSynth == Synthesize

SpecSynth == InitSynth /\ [][NextSynth]_vars

(***************************************************************************)
(* SpecSort: the sort of Completion::new applied to drawn item lists.      *)
(***************************************************************************)
SortA == LSP(<<"A">>, None, TRUE, FALSE, <<>>, 1)
SortB == LSP(<<"B">>, None, FALSE, FALSE, <<>>, 1)
SortC == LSP(<<"C">>, None, FALSE, FALSE, <<>>, 1)
SortP == Path(<<"P">>)
SortItems == {SortA, SortB, SortC, SortP}

InitSort ==
    /\ EditorInit
    /\ SynIdle
    /\ CallIdle
    /\ sortIn \in {Some(l) : l \in SeqsUpTo(SortItems, MaxSortLen)}
    /\ sortOut = None

Sort ==
    /\ sortOut = None
    /\ sortOut' = Some(sort_by_key(Unwrap(sortIn)))
    /\ UNCHANGED <<editorVars, synVars, sortIn, callVars>>

NextSort == Sort

SpecSort == InitSort /\ [][NextSort]_vars

(***************************************************************************)
(* SpecEnsure: ensure_item_resolved called on drawn popups.                *)
(***************************************************************************)
MaxCallItems == 2   \* longest store of the popups ensure_item_resolved is called on

Unregistered == 3   \* a server id neither registry knows any more

\* Server items in every combination of documentation, additional edits and
\* originating server, and a path item.
CallItems ==
    {LSP(<<"a", "b">>, None, FALSE, doc, add, ls) :
        doc \in BOOLEAN, add \in {<<>>, <<ImportEdit>>},
        ls \in Registered \cup {Unregistered}}
    \cup {Path(<<"a">>)}

InitEnsure ==
    /\ EditorInit
    /\ SynIdle
    /\ SortIdle
    /\ \E options \in SeqsUpTo(CallItems, MaxCallItems) \ {<<>>} :
          \E selected \in {None} \cup {Some(i) : i \in 1..Len(options)} :
             callIn = Some([op |-> "ensure_item_resolved",
                            popup |-> [start_offset |-> 1, trigger_offset |-> 1,
                                       options |-> options,
                                       matches |-> Indices(Len(options)),
                                       selected |-> selected]])
    /\ callOut = None

\* One call: the value returned and the request (with its callback) left in flight.
EnsureCall ==
    /\ callOut = None
    /\ Unwrap(callIn).op = "ensure_item_resolved"
    /\ LET request == ensure_item_resolved(Unwrap(callIn).popup)
       IN  callOut' = Some([returned |-> IsSome(request), request |-> request,
                            in_flight |-> IF IsSome(request) THEN 1 ELSE 0,
                            delivered |-> FALSE, response |-> None,
                            popup |-> Unwrap(callIn).popup])
    /\ UNCHANGED <<editorVars, synVars, sortVars, callIn>>

\* The request's future completes, with a failure or with the resolved item, and
\* the callback runs on the popup, which is still open.
ResolveDelivery(response) ==
    /\ callOut # None
    /\ Unwrap(callIn).op = "ensure_item_resolved"
    /\ Unwrap(callOut).in_flight = 1
    /\ LET out == Unwrap(callOut)
           current_item == Unwrap(out.request).current_item
       IN  /\ response \in ResolveResponses(current_item)
           /\ callOut' = Some([out EXCEPT
                                 !.in_flight = 0,
                                 !.delivered = TRUE,
                                 !.response = response,
                                 !.popup = Unwrap(resolve_callback(Some(out.popup),
                                                                   current_item, response))])
    /\ UNCHANGED <<editorVars, synVars, sortVars, callIn>>

NextEnsure ==
    \/ EnsureCall
    \/ \E response \in {None} \cup {Some(Resolved(x)) : x \in CallItems} :
           ResolveDelivery(response)

SpecEnsure == InitEnsure /\ [][NextEnsure]_vars

(***************************************************************************)
(* SpecCallback: one event handled by the menu callback, on drawn          *)
(* documents, anchors, items and server answers.                           *)
(***************************************************************************)
MaxCallLen == 2     \* longest document a popup of these runs is created on

\* An additional edit that rewrites the first character of the document.
OverlapEdit == Change(0, 1, <<"i">>)

\* The items an event can carry for a popup anchored at trigger offset tr: those of
\* CallItems, a server item whose additional edit rewrites document text, and server
\* items with an explicit edit of a range that ends at or before the trigger.
CallbackItems(tr) ==
    CallItems
    \cup {LSP(<<"a", "b">>, None, FALSE, FALSE, <<OverlapEdit>>, 1)}
    \cup {WithTextEdit(LSP(<<"a", "b">>, None, FALSE, FALSE, add, 1), from, to, <<"a", "b">>) :
             add \in {<<>>, <<ImportEdit>>, <<OverlapEdit>>},
             from \in 0..tr, to \in 0..tr}

InitCallback ==
    /\ EditorInit
    /\ SynIdle
    /\ SortIdle
    /\ \E t \in StrsUpTo({"/", "a"}, MaxCallLen) :
          \E tr \in 0..Len(t), typed \in {<<>>, <<"a">>} :
             \E st \in {tr - 1, tr} \cap Nat,
                item \in {None} \cup {Some(x) : x \in CallbackItems(tr)},
                event \in {"Abort", "Update", "Validate"},
                answered \in BOOLEAN,
                moved \in {0, 1},           \* the cursor went right since the popup opened
                last \in {None, CompleteAction(Change(0, 0, <<>>), 0)} :
                /\ tr + moved <= Len(t)
                /\ item # None /\ IsSome(Unwrap(item).text_edit)
                      => Unwrap(Unwrap(item).text_edit).from <= Unwrap(Unwrap(item).text_edit).to
                /\ answered => event = "Validate" /\ item # None
                /\ callIn = Some([op |-> "callback", event |-> event, item |-> item,
                                  doc |-> [apply_transaction(Change(tr, tr, typed), Doc(t, tr))
                                             EXCEPT !.cursor = @ + moved],
                                  savepoint |-> Some(Doc(t, tr + moved)),
                                  last_completion |-> last,
                                  start_offset |-> st, trigger_offset |-> tr,
                                  response |-> IF answered THEN Some(Resolved(Unwrap(item)))
                                               ELSE None,
                                  committed |-> None,
                                  earlier |-> None])
    /\ callOut = None

CallbackCall ==
    /\ callOut = None
    /\ Unwrap(callIn).op = "callback"
    /\ LET in == Unwrap(callIn)
       IN  callOut' = Some(callback(in.event, in.item, in.doc, in.savepoint,
                                    in.last_completion, in.start_offset,
                                    in.trigger_offset, in.response))
    /\ UNCHANGED <<editorVars, synVars, sortVars, callIn>>

\* The same popup's callback is called once more, with an Abort, after a Validate
\* that went through: it runs on what the Validate left (document, pending
\* savepoint, last-completion record).  committed keeps the document before and
\* after the Validate.
AbortAfterValidate ==
    /\ callOut # None
    /\ Unwrap(callIn).op = "callback"
    /\ Unwrap(callIn).event = "Validate"
    /\ Unwrap(callIn).committed = None
    /\ Unwrap(callOut).ok
    /\ LET in == Unwrap(callIn)
           out == Unwrap(callOut)
       IN  /\ callIn' = Some([in EXCEPT
                                !.event = "Abort",
                                !.doc = out.doc,
                                !.savepoint = out.savepoint,
                                !.last_completion = out.last_completion,
                                !.response = None,
                                !.committed = Some([baseline |-> Unwrap(in.savepoint),
                                                    doc |-> out.doc])])
           /\ callOut' = Some(callback("Abort", in.item, out.doc, out.savepoint,
                                       out.last_completion, in.start_offset,
                                       in.trigger_offset, None))
    /\ UNCHANGED <<editorVars, synVars, sortVars>>

\* The same closure is called again, with an Update or a Validate, after an Abort
\* or a Validate that went through: nothing in the closure records that the popup
\* has ended.  earlier keeps the event handled before and the document it left.
\* answered: the server answers the resolve request of the Validate with the
\* resolved item.
LaterEvent(event, answered) ==
    /\ callOut # None
    /\ Unwrap(callIn).op = "callback"
    /\ Unwrap(callIn).event \in {"Abort", "Validate"}
    /\ Unwrap(callIn).committed = None
    /\ Unwrap(callIn).item # None
    /\ Unwrap(callOut).ok
    /\ answered => /\ event = "Validate"
                   /\ Unwrap(Unwrap(callIn).item).kind = "LSP"
                   /\ Unwrap(Unwrap(callIn).item).additional_text_edits = <<>>
                   /\ Unwrap(Unwrap(callIn).item).language_server_id \in ResolveProvider
    /\ LET in == Unwrap(callIn)
           out == Unwrap(callOut)
           response == IF answered THEN Some(Resolved(Unwrap(in.item))) ELSE None
       IN  /\ callIn' = Some([in EXCEPT
                                !.op = "callback_again",
                                !.event = event,
                                !.doc = out.doc,
                                !.savepoint = out.savepoint,
                                !.last_completion = out.last_completion,
                                !.response = response,
                                !.earlier = Some([event |-> in.event, doc |-> out.doc])])
           /\ callOut' = Some(callback(event, in.item, out.doc, out.savepoint,
                                       out.last_completion, in.start_offset,
                                       in.trigger_offset, response))
    /\ UNCHANGED <<editorVars, synVars, sortVars>>

NextCallback ==
    \/ CallbackCall
    \/ AbortAfterValidate
    \/ \E event \in {"Update", "Validate"} :
          \E answered \in BOOLEAN : LaterEvent(event, answered)

SpecCallback == InitCallback /\ [][NextCallback]_vars

(***************************************************************************)
(* SpecResolution: both ways a completionItem/resolve answer comes back,   *)
(* to the callback of ensure_item_resolved and to a waiting Validate.      *)
(***************************************************************************)
InitResolution == InitEnsure \/ InitCallback

NextResolution == NextEnsure \/ NextCallback

SpecResolution == InitResolution /\ [][NextResolution]_vars

(***************************************************************************)
(* SpecDismiss: the operations of one Completion, called in any order:     *)
(* update after a key, add_completion_items with a late batch, and the     *)
(* menu callback with Update and Validate.  Nothing here removes the popup;*)
(* the file holds no operation that does.                                  *)
(***************************************************************************)
DismissItems == {ItemA, ItemP}

\* after is the operation that ran last; backtracked records that recompute_filter
\* has run with the cursor before the anchor's start offset.
PopupState(popup, d, sp, last, after, backtracked) ==
    [op |-> "popup", popup |-> popup, doc |-> d, savepoint |-> sp,
     last_completion |-> last, after |-> after, backtracked |-> backtracked]

\* Completion::new on a drawn document, anchor and batch, the cursor at the
\* trigger offset, and the savepoint the editor takes with it.
InitDismiss ==
    /\ EditorInit
    /\ SynIdle
    /\ SortIdle
    /\ \E t \in StrsUpTo({"/", "a"}, MaxCallLen) :
          \E tr \in 0..Len(t), st \in 0..Len(t),
             items \in SeqsUpTo(DismissItems, MaxCallItems) \ {<<>>} :
             LET d == Doc(t, tr)
                 popup == completion_new(items, st, tr, d)
             IN  callIn = Some(PopupState(popup, d, set_completion_savepoint(d), None,
                                          IF popup = None THEN "panic" ELSE "new", FALSE))
    /\ callOut = None

PopupLive ==
    /\ callIn # None
    /\ Unwrap(callIn).op = "popup"
    /\ Unwrap(callIn).after \notin {"panic", "validate"}

\* A key edits the document at the cursor, then Completion::update.
PopupAfterKey(d) ==
    LET in == Unwrap(callIn)
        p1 == update(Unwrap(in.popup), d)
    IN  /\ callIn' = Some(IF p1 = None
                          THEN [in EXCEPT !.doc = d, !.after = "panic"]
                          ELSE [in EXCEPT !.popup = p1, !.doc = d, !.after = "update",
                                          !.backtracked =
                                              @ \/ d.cursor < Unwrap(in.popup).start_offset])
        /\ callOut' = None
        /\ UNCHANGED <<editorVars, synVars, sortVars>>

PopupKeyType(c) ==
    /\ PopupLive
    /\ Len(Unwrap(callIn).doc.text) < MaxCallLen
    /\ LET d == Unwrap(callIn).doc
       IN  PopupAfterKey(apply_transaction(Change(d.cursor, d.cursor, <<c>>), d))

PopupKeyBackspace ==
    /\ PopupLive
    /\ Unwrap(callIn).doc.cursor > 0
    /\ LET d == Unwrap(callIn).doc
       IN  PopupAfterKey(apply_transaction(Change(d.cursor - 1, d.cursor, <<>>), d))

\* A late batch: Completion::add_completion_items.
PopupAddItems(item) ==
    /\ PopupLive
    /\ Len(Unwrap(Unwrap(callIn).popup).options) < MaxCallItems
    /\ LET in == Unwrap(callIn)
       IN  callIn' = Some([in EXCEPT !.popup = Some(add_completion_items(Unwrap(@), <<item>>)),
                                     !.after = "add"])
    /\ callOut' = None
    /\ UNCHANGED <<editorVars, synVars, sortVars>>

\* The menu focuses visible entry i and calls the callback with Update.
PopupUpdate(i) ==
    /\ PopupLive
    /\ LET in == Unwrap(callIn)
           popup == Unwrap(in.popup)
           out == callback("Update", Some(popup.options[i]), in.doc, in.savepoint,
                           in.last_completion, popup.start_offset, popup.trigger_offset, None)
       IN  /\ InSeq(i, popup.matches)
           /\ callIn' = Some([in EXCEPT !.popup = Some([popup EXCEPT !.selected = Some(i)]),
                                        !.doc = out.doc, !.savepoint = out.savepoint,
                                        !.last_completion = out.last_completion,
                                        !.after = IF out.ok THEN "event" ELSE "panic"])
           /\ callOut' = Some(out)
    /\ UNCHANGED <<editorVars, synVars, sortVars>>

\* The menu calls the callback with Validate on the focused entry; response is
\* what the server answers to the resolve request, when one is sent.
PopupValidate(response) ==
    /\ PopupLive
    /\ LET in == Unwrap(callIn)
           popup == Unwrap(in.popup)
           item == Unwrap(menu_selection(popup))
           out == callback("Validate", menu_selection(popup), in.doc, in.savepoint,
                           in.last_completion, popup.start_offset, popup.trigger_offset,
                           response)
       IN  /\ IsSome(popup.selected)
           /\ response \in IF item.kind = "LSP" /\ item.additional_text_edits = <<>>
                              /\ item.language_server_id \in ResolveProvider
                           THEN ResolveResponses(item) ELSE {None}
           /\ callIn' = Some([in EXCEPT !.doc = out.doc, !.savepoint = out.savepoint,
                                        !.last_completion = out.last_completion,
                                        !.after = IF out.ok THEN "validate" ELSE "panic"])
           /\ callOut' = Some(out)
    /\ UNCHANGED <<editorVars, synVars, sortVars>>

NextDismiss ==
    \/ \E c \in TypeChars : PopupKeyType(c)
    \/ PopupKeyBackspace
    \/ \E item \in DismissItems : PopupAddItems(item)
    \/ \E i \in 1..MaxCallItems : PopupUpdate(i)
    \/ \E response \in {None} \cup {Some(Resolved(x)) : x \in DismissItems} : PopupValidate(response)

SpecDismiss == InitDismiss /\ [][NextDismiss]_vars

(***************************************************************************)
(* Properties.                                                             *)
(***************************************************************************)
PopupOpen == completion # None

\* C1: no compounding of previews.  Whatever Update events a popup has handled,
\* with whatever candidates focused, the document content immediately before each
\* preview transaction is applied equals the document content at popup creation.
C1_NoCompounding ==
    /\ hist.lastPre # None => Unwrap(hist.lastPre) = hist.createText
    /\ hist.firstPre # None => Unwrap(hist.firstPre) = hist.createText

\* A second preview, of a different candidate than the one previewed before, is live.
C1_Witness ==
    /\ PopupOpen
    /\ hist.switched
    /\ savepoint # None
    /\ text # hist.createText

\* C2: abort purity.  After an Abort event the document content is exactly the
\* content at popup creation, whatever number of Update events came before and
\* also when text was typed between popup creation and the first Update.
C2_AbortPurity ==
    hist.abortText # None => Unwrap(hist.abortText) = hist.createText /\ savepoint = None

\* An Abort after text was typed into the open popup and at least one Update followed.
C2_Witness ==
    /\ hist.abortText # None
    /\ hist.typedFirst
    /\ hist.firstPre # None
    /\ ~PopupOpen
    /\ text = hist.createText

\* C3: dismiss on backtrack.  Right after recompute_filter has run with the cursor
\* before the anchor's start offset the visible list is empty, and from then on no
\* Update or Validate of that popup applies an edit to the document, whatever
\* recompute_filter and add_completion_items calls came in between.
C3_DismissOnBacktrack ==
    (callIn # None /\ Unwrap(callIn).op = "popup" /\ Unwrap(callIn).backtracked) =>
        /\ Unwrap(callIn).after = "update"
              /\ Unwrap(callIn).doc.cursor < Unwrap(Unwrap(callIn).popup).start_offset
              => is_empty(Unwrap(Unwrap(callIn).popup))
        /\ callOut # None => Unwrap(callOut).log = <<>>

\* C4: resolution race safety.  A response delivered after the popup that issued
\* the request has closed changes no candidate store and raises no error.
C4_ClosedIssuerNoStoreChange ==
    [][\A k \in 1..MaxPending, r \in ResolveResponses(ItemA) :
          Deliver(k, r) /\ ~pending[k].issuer_open
              => StoreOf(completion') = StoreOf(completion) /\ panicked' = panicked]_vars

\* C5: liveness is that of the issuing popup.  When the issuing popup has closed and
\* another popup, holding a value-equal candidate, is open at delivery, the response
\* changes no store.
C5_OnlyIssuerStoreMutated ==
    [][\A k \in 1..MaxPending, r \in ResolveResponses(ItemA) :
          (/\ Deliver(k, r)
           /\ ~pending[k].issuer_open
           /\ PopupOpen
           /\ InSeq(pending[k].current_item, Unwrap(completion).options))
              => completion' = completion]_vars

\* C6: identity-preserving swap.  A response delivered to a live popup replaces
\* exactly one slot holding a candidate value-equal to the one the request was
\* issued for, leaving the store's length, every other slot and the rest of the
\* popup as they were; with no such slot the store is unchanged and nothing is
\* inserted.  A failed request changes nothing.
C6_IdentityPreservingSwap ==
    [][\A k \in 1..MaxPending, r \in ResolveResponses(ItemA) :
          (Deliver(k, r) /\ PopupOpen) =>
              LET popup == Unwrap(completion)
                  old == pending[k].current_item
                  hits == {i \in 1..Len(popup.options) : popup.options[i] = old}
              IN  /\ completion' # None
                  /\ Len(Unwrap(completion').options) = Len(popup.options)
                  /\ IF r = None \/ hits = {}
                     THEN completion' = completion
                     ELSE \E i \in hits :
                              Unwrap(completion') = [popup EXCEPT !.options[i] = Unwrap(r)]]_vars

\* The open popup's store holds a resolved item, which only a response can put there.
C6_Witness ==
    /\ PopupOpen
    /\ InSeq(Resolved(ItemA), Unwrap(completion).options)
    /\ ~InSeq(ItemA, Unwrap(completion).options)

\* C7: prefix-trim correctness.  For a server item without an explicit edit, with
\* candidate text T and typed fragment F = document[start..trigger], the transaction
\* inserts at the cursor, deletes nothing, and inserts T with F removed once from
\* its front when F is a prefix of T (so F followed by the insertion is T), and T
\* otherwise.
C7_PrefixTrimmedOnce ==
    (/\ synOut # None
     /\ Unwrap(synIn).item.kind = "LSP"
     /\ Unwrap(synIn).start_offset <= Unwrap(synIn).trigger_offset) =>
        LET in == Unwrap(synIn)
            T == IF IsSome(in.item.insert_text) THEN Unwrap(in.item.insert_text)
                 ELSE in.item.label
            F == Slice(in.text, in.start_offset, in.trigger_offset)
            tx == Unwrap(synOut)
        IN  /\ tx.ok
            /\ tx.from = in.cursor /\ tx.to = in.cursor
            /\ tx.text = strip_prefix_once(T, F)
            /\ StartsWith(T, F) => F \o tx.text = T

\* C8: path completion.  For a path item whose line up to the trigger holds a path
\* token, the transaction inserts at the cursor the file name with the typed prefix
\* (the token's final component, plus the separator when the token ends with one)
\* removed once from its front, so prefix followed by the insertion is the file name
\* whenever the prefix is a prefix of it.
C8_PathPrefixTrimmedOnce ==
    (synOut # None /\ Unwrap(synIn).item.kind = "Path" /\ Unwrap(synOut).ok) =>
        LET in == Unwrap(synIn)
            name == in.item.label
            prefix == path_prefix(in.text, in.trigger_offset)
            tx == Unwrap(synOut)
        IN  /\ tx.from = in.cursor /\ tx.to = in.cursor
            /\ tx.text = strip_prefix_once(name, prefix)
            /\ StartsWith(name, prefix) => prefix \o tx.text = name

\* C9: preselect ordering.  The initial order is a permutation of the arrival order
\* that places every preselected server item before every non-preselected one and
\* otherwise keeps arrival order; a path item is never moved ahead of an item that
\* arrived before it.
C9_PreselectOrdering ==
    sortOut # None =>
        LET items == Unwrap(sortIn)
            perm == Unwrap(sortOut)
            n == Len(items)
            Pos(i) == CHOOSE k \in 1..n : perm[k] = i
            Pre(i) == items[i].kind = "LSP" /\ items[i].preselect
            NonPre(i) == items[i].kind = "LSP" /\ ~items[i].preselect
        IN  /\ Len(perm) = n
            /\ \A i \in 1..n : \E k \in 1..n : perm[k] = i
            /\ \A i, j \in 1..n : Pre(i) /\ NonPre(j) => Pos(i) < Pos(j)
            /\ \A i, j \in 1..n : (i < j /\ ~Pre(j)) => Pos(i) < Pos(j)
            /\ \A i, j \in 1..n : (i < j /\ Pre(i) /\ Pre(j)) => Pos(i) < Pos(j)
            /\ \A i, j \in 1..n : (i < j /\ items[j].kind = "Path") => Pos(i) < Pos(j)

\* C10: additional-edit application order.  In a Validate the first transaction
\* applied is the primary one, and additional edits are applied only after it, to
\* the document that already holds the primary edit.
C10_PrimaryBeforeAdditional ==
    LET log == hist.validateLog
    IN  /\ log # <<>> => log[1].kind = "primary"
        /\ \A k \in 1..Len(log) :
              log[k].kind = "additional" =>
                  /\ k = 2
                  /\ log[1].kind = "primary"
                  /\ log[k].before = log[1].after

\* A Validate that applied additional edits.
C10_Witness ==
    /\ Len(hist.validateLog) = 2
    /\ hist.validateLog[2].kind = "additional"
    /\ hist.validateLog[2].after # hist.validateLog[2].before
    /\ ~panicked

\* C11: non-blocking commit.  A Validate of a server item that needs resolution (no
\* additional edits of its own, server with resolve support) completes with the
\* primary edit only: the document after the step is the restored document with
\* the primary transaction applied, whatever the server answers, the additional
\* edits being left to a later step.
C11_NonBlockingCommit ==
    [][\A r \in UNION {ResolveResponses(x) : x \in LifeItems} :
          (/\ Validate(r)
           /\ LET item == Unwrap(menu_selection(Unwrap(completion)))
              IN  /\ item.kind = "LSP"
                  /\ item.additional_text_edits = <<>>
                  /\ item.language_server_id \in ResolveProvider)
              => LET popup == Unwrap(completion)
                     item == Unwrap(menu_selection(popup))
                     d0 == restore(savepoint, Doc(text, cursor))
                     tx == item_to_transaction(d0.text, d0.cursor, item,
                                               popup.start_offset, popup.trigger_offset)
                 IN  text' = apply_transaction(tx, d0).text]_vars

\* C12: ensure_item_resolved returns true exactly when it issued a request, and it
\* issues one exactly when the focused candidate is a server item without
\* documentation whose server is known and declares resolve support; the request is
\* for that candidate.  With no selection, a path item, documentation present, or a
\* server missing or without resolve support it returns false and leaves nothing
\* in flight.
C12_EnsureItemResolvedReturn ==
    callOut # None =>
        LET popup == Unwrap(callIn).popup
            out == Unwrap(callOut)
            sel == menu_selection(popup)
            eligible == /\ sel # None
                        /\ Unwrap(sel).kind = "LSP"
                        /\ ~Unwrap(sel).documentation
                        /\ Unwrap(sel).language_server_id \in Registered
                        /\ Unwrap(sel).language_server_id \in ResolveProvider
        IN  /\ out.returned <=> out.request # None
            /\ out.request # None <=> eligible
            /\ out.request # None => Unwrap(out.request).current_item = Unwrap(sel)

\* A call that issued a request while the store also holds a documented item.
C12_Witness ==
    /\ callOut # None
    /\ Unwrap(callOut).returned
    /\ \E i \in 1..Len(Unwrap(callIn).popup.options) :
          Unwrap(callIn).popup.options[i].documentation

\* What C13 says the popup is after a key that leaves the document d: rescored
\* against document[start..cursor], gone when nothing matches.
ClaimedAfterKey(d) ==
    LET popup == Unwrap(completion)
        p1 == menu_score(popup, Slice(d.text, popup.start_offset, d.cursor))
    IN  IF is_empty(p1) THEN None ELSE Some(p1)

\* C13: recompute_filter dismisses only on backtrack past the anchor start.  After a
\* key that leaves the cursor at or after the anchor's start offset (also when it
\* is before the trigger offset), the popup holds the candidates rescored against
\* document[start..cursor]; it goes away only when that rescoring matches nothing.
C13_DismissOnlyPastAnchorStart ==
    [][/\ (KeyBackspace /\ PopupOpen /\ Backspaced.cursor >= Unwrap(completion).start_offset)
          => completion' = ClaimedAfterKey(Backspaced)
       /\ \A c \in TypeChars :
             (KeyType(c) /\ PopupOpen /\ Typed(c).cursor >= Unwrap(completion).start_offset)
                => completion' = ClaimedAfterKey(Typed(c))]_vars

\* C14: Aborted and Committed are terminal.  Once the callback has handled an
\* Abort or a Validate, a later Update or Validate event it is called with applies
\* no edit: no transaction is applied and the document content stays as it was.
C14_TerminalStates ==
    (callOut # None /\ Unwrap(callIn).op = "callback_again") =>
        /\ Unwrap(callOut).log = <<>>
        /\ Unwrap(callOut).doc.text = Unwrap(Unwrap(callIn).earlier).doc.text

\* The callback has handled an Update or a Validate.
CalledWithItemEvent ==
    /\ callOut # None
    /\ Unwrap(callIn).op = "callback"
    /\ Unwrap(callIn).event \in {"Update", "Validate"}

\* The primary transaction of the call, synthesized on the restored document.
CalledPrimary ==
    LET in == Unwrap(callIn)
        d0 == Unwrap(in.savepoint)
    IN  item_to_transaction(d0.text, d0.cursor, Unwrap(in.item),
                            in.start_offset, in.trigger_offset)

\* C15: empty focus is a no-op.  An Update or Validate that carries no focused
\* candidate raises no error, applies no transaction and leaves the document at the
\* restored baseline.
C15_EmptyFocusNoOp ==
    (CalledWithItemEvent /\ Unwrap(callIn).item = None) =>
        LET in == Unwrap(callIn)
            out == Unwrap(callOut)
        IN  /\ out.ok
            /\ out.log = <<>>
            /\ out.doc = Unwrap(in.savepoint)

\* C16: synthesis failure is recoverable.  When the focused candidate is a path item
\* and the path regex finds nothing in the line up to the trigger offset, the step
\* does not crash, applies no edit and leaves the document at the restored baseline.
C16_SynthesisFailureRecoverable ==
    (/\ CalledWithItemEvent
     /\ Unwrap(callIn).item # None
     /\ Unwrap(Unwrap(callIn).item).kind = "Path"
     /\ LET in == Unwrap(callIn)
            t == Unwrap(in.savepoint).text
        IN  PATH_REGEX_find(Slice(t, begin_line(t, in.trigger_offset), in.trigger_offset))
                = None) =>
        LET in == Unwrap(callIn)
            out == Unwrap(callOut)
        IN  /\ out.ok
            /\ out.log = <<>>
            /\ out.doc = Unwrap(in.savepoint)

\* C17: missing language server at commit.  A Validate of a server item without
\* additional edits of its own, whose server id is not registered, raises no error:
\* the primary edit is applied and stays, and nothing else is applied.
C17_MissingServerCommitProceeds ==
    (/\ CalledWithItemEvent
     /\ Unwrap(callIn).event = "Validate"
     /\ Unwrap(callIn).item # None
     /\ Unwrap(Unwrap(callIn).item).kind = "LSP"
     /\ Unwrap(Unwrap(callIn).item).additional_text_edits = <<>>
     /\ Unwrap(Unwrap(callIn).item).language_server_id \notin Registered) =>
        LET in == Unwrap(callIn)
            out == Unwrap(callOut)
        IN  /\ out.ok
            /\ Len(out.log) = 1 /\ out.log[1].kind = "primary"
            /\ out.doc = apply_transaction(CalledPrimary, Unwrap(in.savepoint))

\* C18: Validate finalization decision.  For a server item with additional edits of
\* its own, they are applied and no resolve request is made; a request is made only
\* for an item without additional edits that is still unresolved (no documentation)
\* and whose server declares resolve support.
C18_FinalizationDecision ==
    (/\ CalledWithItemEvent
     /\ Unwrap(callIn).event = "Validate"
     /\ Unwrap(callIn).item # None
     /\ Unwrap(Unwrap(callIn).item).kind = "LSP"
     /\ Unwrap(callOut).ok) =>
        LET item == Unwrap(Unwrap(callIn).item)
            out == Unwrap(callOut)
        IN  /\ item.additional_text_edits # <<>>
                  => /\ ~out.requested
                     /\ Len(out.log) = 2 /\ out.log[2].kind = "additional"
            /\ out.requested
                  => /\ item.additional_text_edits = <<>>
                     /\ item.language_server_id \in ResolveProvider
                     /\ ~item.documentation

\* Two ranges of the document share text, or one is an insertion point strictly
\* inside the other.
Overlaps(e, tx) ==
    \/ e.from < tx.to /\ tx.from < e.to
    \/ e.from < tx.from /\ tx.to < e.to

\* C19: on Validate no additional edit that is applied has a range overlapping the
\* range of the primary edit applied in the same Validate.
C19_AdditionalEditsDisjoint ==
    (/\ CalledWithItemEvent
     /\ Unwrap(callIn).event = "Validate"
     /\ Unwrap(callIn).item # None
     /\ Unwrap(callOut).ok
     /\ Len(Unwrap(callOut).log) = 2) =>
        LET in == Unwrap(callIn)
            item == Unwrap(in.item)
            applied == IF item.additional_text_edits # <<>> THEN item.additional_text_edits
                       ELSE Unwrap(in.response).additional_text_edits
        IN  \A k \in 1..Len(applied) : ~Overlaps(applied[k], CalledPrimary)

\* C20: the last-completion record reflects the event handled.  After an Abort it is
\* absent; after an Update or Validate with a focused candidate it holds the
\* trigger offset and exactly the changes (start, end, text) of the primary
\* transaction with start <= trigger offset <= end.
C20_LastCompletionRecord ==
    (callOut # None /\ Unwrap(callIn).op = "callback") =>
        LET in == Unwrap(callIn)
            out == Unwrap(callOut)
            Covers(c) == c.from <= in.trigger_offset /\ in.trigger_offset <= c.to
        IN  /\ in.event = "Abort" => out.last_completion = None
            /\ (in.event # "Abort" /\ in.item # None /\ CalledPrimary.ok) =>
                   /\ out.last_completion # None
                   /\ Unwrap(out.last_completion).trigger_offset = in.trigger_offset
                   /\ Unwrap(out.last_completion).changes =
                          SelectSeq(<<[from |-> CalledPrimary.from, to |-> CalledPrimary.to,
                                       text |-> CalledPrimary.text]>>, Covers)

\* An Update whose primary edit ends before the trigger offset replaced an older
\* record by one without changes.
C20_Witness ==
    /\ CalledWithItemEvent
    /\ Unwrap(callIn).event = "Update"
    /\ Unwrap(callIn).last_completion # None
    /\ Unwrap(callOut).ok
    /\ Unwrap(callOut).last_completion # None
    /\ Unwrap(Unwrap(callOut).last_completion).changes = <<>>
    /\ Unwrap(callOut).doc # Unwrap(Unwrap(callIn).savepoint)

\* C21: resolution failure is non-fatal and not retried.  When the request of
\* ensure_item_resolved fails, the popup and its candidate store are as they were,
\* the focused candidate is still unresolved and no request is in flight; when the
\* request a Validate waits for fails, the Validate ends without error with the
\* primary edit only.
C21_ResolutionFailureNonFatal ==
    /\ (/\ callOut # None
        /\ Unwrap(callIn).op = "ensure_item_resolved"
        /\ Unwrap(callOut).delivered
        /\ Unwrap(callOut).response = None) =>
           LET in == Unwrap(callIn)
               out == Unwrap(callOut)
           IN  /\ out.popup = in.popup
               /\ ~Unwrap(menu_selection(out.popup)).documentation
               /\ out.in_flight = 0
               /\ text = <<"/">> /\ ~panicked
    /\ (/\ callOut # None
        /\ Unwrap(callIn).op = "callback"
        /\ Unwrap(callOut).requested
        /\ Unwrap(callIn).response = None) =>
           LET in == Unwrap(callIn)
               out == Unwrap(callOut)
               d0 == Unwrap(in.savepoint)
               tx == item_to_transaction(d0.text, d0.cursor, Unwrap(in.item),
                                         in.start_offset, in.trigger_offset)
           IN  /\ out.ok
               /\ Len(out.log) = 1
               /\ out.doc = apply_transaction(tx, d0)

\* A failed answer was delivered to a popup of two candidates.
C21_Witness ==
    /\ callOut # None
    /\ Unwrap(callIn).op = "ensure_item_resolved"
    /\ Unwrap(callOut).delivered
    /\ Unwrap(callOut).response = None
    /\ Len(Unwrap(callOut).popup.options) = 2

\* C22: assertion validity.  Whenever an Update or Validate synthesizes the
\* transaction of a server item without explicit edit, whatever was typed and
\* wherever the cursor went while the popup was open, the cursor is at the trigger
\* offset: the insertion is made at the trigger offset, on the document as it was
\* when the popup opened.
C22_CursorAtTrigger ==
    (/\ CalledWithItemEvent
     /\ Unwrap(callIn).item # None
     /\ Unwrap(Unwrap(callIn).item).kind = "LSP"
     /\ Unwrap(Unwrap(callIn).item).text_edit = None) =>
        LET in == Unwrap(callIn)
            out == Unwrap(callOut)
        IN  /\ restore(in.savepoint, in.doc).cursor = in.trigger_offset
            /\ out.log # <<>>               \* the synthesis went through, debug_assert! included
            /\ out.log[1].before = Unwrap(in.savepoint).text
            /\ out.last_completion # None
            /\ Len(Unwrap(out.last_completion).changes) = 1
            /\ Unwrap(out.last_completion).changes[1].from = in.trigger_offset
            /\ Unwrap(out.last_completion).changes[1].to = in.trigger_offset

\* C23: commit is not revocable.  An Abort handled by the popup's callback after a
\* Validate has applied its edits leaves the document as the Validate left it:
\* no savepoint is pending for the Abort to restore.
C23_CommitNotRevocable ==
    (/\ callOut # None
     /\ Unwrap(callIn).op = "callback"
     /\ Unwrap(callIn).committed # None) =>
        LET in == Unwrap(callIn)
            out == Unwrap(callOut)
        IN  /\ in.savepoint = None
            /\ out.ok
            /\ out.doc = Unwrap(in.committed).doc
            /\ out.savepoint = None

\* An Abort after a Validate that changed the document (primary and additional edits).
C23_Witness ==
    /\ callOut # None
    /\ Unwrap(callIn).op = "callback"
    /\ Unwrap(callIn).committed # None
    /\ Unwrap(Unwrap(callIn).committed).doc.text # Unwrap(Unwrap(callIn).committed).baseline.text
    /\ Unwrap(Unwrap(callIn).item).additional_text_edits # <<>>
    /\ Unwrap(callOut).doc = Unwrap(Unwrap(callIn).committed).doc

\* C24: savepoint discipline.  After the callback has handled an event a savepoint
\* is pending only if the event was an Update that went through, and it is then the
\* restored document, the one the preview was applied to; after a Validate or an
\* Abort no savepoint is pending.
C24_SavepointDiscipline ==
    (callOut # None /\ Unwrap(callIn).op = "callback") =>
        LET in == Unwrap(callIn)
            out == Unwrap(callOut)
            d0 == restore(in.savepoint, in.doc)
        IN  /\ out.savepoint # None =>
                    /\ in.event = "Update"
                    /\ out.ok
                    /\ out.savepoint = Some(d0)
                    /\ Len(out.log) = 1
                    /\ out.log[1].kind = "preview"
                    /\ out.log[1].before = Unwrap(out.savepoint).text
                    /\ out.log[1].after = out.doc.text
            /\ in.event \in {"Validate", "Abort"} => out.savepoint = None

\* An Update on a document with typed text: the pending savepoint is the baseline,
\* neither the typed document nor the previewed one.
C24_Witness ==
    /\ callOut # None
    /\ Unwrap(callIn).op = "callback"
    /\ Unwrap(callIn).event = "Update"
    /\ Unwrap(callOut).savepoint # None
    /\ Unwrap(Unwrap(callOut).savepoint).text # Unwrap(callIn).doc.text
    /\ Unwrap(Unwrap(callOut).savepoint).text # Unwrap(callOut).doc.text

====
